---- MODULE Spec2Model ----
(***************************************************************************)
(* Model of the CI output protocol of tfci: the GitHub Actions context     *)
(* (internal/environment/github.go, first definition of the type, lines    *)
(* 1-177) and the processes that use it.                                   *)
(*                                                                         *)
(* Strings are sequences of atoms.  An atom is an indivisible piece of     *)
(* text: "\n" is the line break, "=" and "<<" are the separators, the      *)
(* other atoms stand for runs of ordinary characters.  Concatenation of    *)
(* strings (fmt.Sprintf with %s) is concatenation of sequences.            *)
(***************************************************************************)
EXTENDS Integers, Sequences, FiniteSets, Bags, TLC

\* ------------------------------------------------------------------ bounds
\* SetOutput and CloseOutput calls made in one job, over all its processes
MaxCalls == 4
\* file operations (open, write, sync, close) that fail in one job
MaxFaults == 1
\* atoms of a line that reach the file when the write of that line fails
MaxTorn == 1

\* ------------------------------------------------------------ program text
\* const EOF = "\n"
EOF == <<"\n">>

\* the steps of one job that run the tool, each a process of its own; the
\* runner starts a step when the steps before it have exited
Procs == {"p1", "p2"}
Earlier(p) == IF p = "p2" THEN {"p1"} ELSE {}

\* values the runner gives to GITHUB_RUN_ID and GITHUB_RUN_NUMBER
RunIds == {<<"42">>}
RunNumbers == {<<"7">>}
\* values of GITHUB_OUTPUT and GITHUB_ENV: unset (empty) or a path
\* GITHUB_SHA: none, shorter than the short form, as long as it, longer
CommitSHAs ==
  { <<>>,
    <<"a", "b", "c">>,
    <<"a", "b", "c", "d", "e", "f", "0">>,
    <<"a", "b", "c", "d", "e", "f", "0", "1">> }
\* the commit of the job whose output is followed
HeadSHA == <<"a", "b", "c", "d", "e", "f", "0", "1">>
\* the values of the status output
Statuses == {"Success", "Error", "Timeout"}
\* the steps whose identity is read
Readers == {"p1"}
OutputPaths == {<<>>, <<"out">>}
EnvPaths == {<<>>, <<"env">>}
Paths == {<<"out">>, <<"env">>}
\* process ids the operating system hands out; every step runs the image's
\* ENTRYPOINT in a container of its own, so ids repeat across steps
Pids == {1, 2}

\* a file that does not exist
Absent == "absent"

\* ------------------------------------------------------------ string tools
Digit == <<"0", "1", "2", "3", "4", "5", "6", "7", "8", "9">>

\* fmt's %d of a non-negative integer
RECURSIVE Itoa(_)
Itoa(n) ==
  IF n < 10 THEN <<Digit[n + 1]>> ELSE Itoa(n \div 10) \o <<Digit[(n % 10) + 1]>>

\* strings.Contains(s, a) for a one-atom a
Contains(s, a) == \E i \in 1..Len(s) : s[i] = a

Min(a, b) == IF a < b THEN a ELSE b

IsPrefix(s, t) == Len(s) <= Len(t) /\ SubSeq(t, 1, Len(s)) = s

\* all orders in which the elements of S can be visited
Orders(S) ==
  {o \in [1..Cardinality(S) -> S] : \A i, j \in 1..Cardinality(S) : i # j => o[i] # o[j]}

RECURSIVE Flatten(_)
Flatten(ss) == IF ss = <<>> THEN <<>> ELSE Head(ss) \o Flatten(Tail(ss))

\* --------------------------------------------------------- output values
K1 == <<"status">>
K2 == <<"payload">>

\* fmt.Sprintf("GHDELIM_%s_%s_%d", runId, runNumber, os.Getpid())
FileDelimeter(runId, runNumber, pid) ==
  <<"GHDELIM_">> \o runId \o <<"_">> \o runNumber \o <<"_">> \o Itoa(pid)

\* An OutputWriter: String() and MultiLine()
vEq == [str |-> <<"a", "=", "\"b\"">>, multiLine |-> FALSE]
vFlag == [str |-> <<"Success">>, multiLine |-> TRUE]
vLines == [str |-> <<"line1", "\n", "line2">>, multiLine |-> FALSE]
vDelim ==
  [str |-> <<"x", "\n">> \o FileDelimeter(<<"42">>, <<"7">>, 1) \o <<"\n", "status", "=", "z">>,
   multiLine |-> FALSE]

EmptyMap == [k \in {} |-> vEq]

\* the OutputMaps command logic passes to SetOutput
OutputArgs ==
  { [k \in {K1} |-> vEq],
    [k \in {K2} |-> vDelim],
    [k \in {K1, K2} |-> IF k = K1 THEN vFlag ELSE vLines] }

\* ------------------------------------------------------------------ state
VARIABLES
  env,      \* the job's environment variables, as getenv sees them
  pc,       \* per process: "init" (not started), "run", "done" (exited)
  gh,       \* per process: its *GitHubContext
  fs,       \* the file system: path -> contents, or Absent
  stdout,   \* per process: the lines it printed to standard output, as a bag
  res,      \* per process: what its last CloseOutput call did
  calls,    \* per process: the SetOutput arguments since the set was last reset
  nCalls,   \* SetOutput and CloseOutput calls made so far
  nFaults,  \* file operations that failed so far
  wlog,     \* every CloseOutput call that opened a file, in call order
  ident,    \* per process: what its ID(), SHA() and SHAShort() calls returned
  run       \* per process: where its upload command's Run is, and what it did

vars == <<env, pc, gh, fs, stdout, res, calls, nCalls, nFaults, wlog, ident, run>>

\* what the context and its destination consist of
ctxVars == <<env, pc, gh, fs, stdout, res, calls, nCalls, nFaults, wlog>>

\* the zero value of a *GitHubContext that is not constructed yet
NoContext ==
  [runId |-> <<>>, runNumber |-> <<>>, commitSHA |-> <<>>, githubOutput |-> <<>>,
   output |-> EmptyMap, fileDelimeter |-> <<>>]

\* the record of a process that has not read its identity
NoIdent ==
  [read |-> FALSE, ids |-> {}, sha |-> <<>>, short |-> <<>>, first |-> 0, last |-> 0]

\* the record of a process whose Run has not begun
NoRun ==
  [at |-> "start", speculative |-> FALSE, provisional |-> FALSE,
   setupErr |-> FALSE, dirError |-> FALSE, cvError |-> FALSE, config |-> "nil",
   trace |-> <<>>, ret |-> -1]

\* the result record of a process that has not called CloseOutput
NoResult ==
  [called |-> FALSE, retErr |-> "nil", opened |-> FALSE, lines |-> <<>>,
   failedKey |-> <<>>, partial |-> <<>>, text |-> <<>>, before |-> EmptyMap,
   history |-> <<>>, at |-> 0, failed |-> {}, opens |-> 0,
   syncs |-> 0, closes |-> 0, printed |-> EmptyBag]

\* ------------------------------------------------------------ the context
\* the construction without the fallback to GITHUB_ENV
newGitHubContextNoFallback(getenv, pid) ==
  [runId |-> getenv["GITHUB_RUN_ID"],
   runNumber |-> getenv["GITHUB_RUN_NUMBER"],
   commitSHA |-> getenv["GITHUB_SHA"],
   githubOutput |-> getenv["GITHUB_OUTPUT"],
   output |-> EmptyMap,
   fileDelimeter |->
     FileDelimeter(getenv["GITHUB_RUN_ID"], getenv["GITHUB_RUN_NUMBER"], pid)]

\* newGitHubContext(getenv), with the process id os.Getpid() returns
newGitHubContext(getenv, pid) ==
  LET githubOutput == getenv["GITHUB_OUTPUT"]
      legacyEnv == getenv["GITHUB_ENV"]
  IN [runId |-> getenv["GITHUB_RUN_ID"],
      runNumber |-> getenv["GITHUB_RUN_NUMBER"],
      commitSHA |-> getenv["GITHUB_SHA"],
      githubOutput |-> IF githubOutput = <<>> /\ legacyEnv # <<>>
                       THEN legacyEnv ELSE githubOutput,
      output |-> EmptyMap,
      fileDelimeter |->
        FileDelimeter(getenv["GITHUB_RUN_ID"], getenv["GITHUB_RUN_NUMBER"], pid)]

\* the identifier with the run number before the run id
IDSwapped(ctx) == <<"gha", "-">> \o ctx.runNumber \o <<"-">> \o ctx.runId

\* gh.ID()
ID(ctx) == <<"gha", "-">> \o ctx.runId \o <<"-">> \o ctx.runNumber

\* gh.SHA()
SHA(ctx) == ctx.commitSHA

\* the short form cut only when the SHA is longer than 8
SHAShortEight(ctx) ==
  IF Len(ctx.commitSHA) > 8 THEN SubSeq(ctx.commitSHA, 1, 7) ELSE ctx.commitSHA

\* gh.SHAShort()
SHAShort(ctx) ==
  IF Len(ctx.commitSHA) > 7 THEN SubSeq(ctx.commitSHA, 1, 7) ELSE ctx.commitSHA

\* a copy that keeps the value a key already has
MapsCopyKeepExisting(dst, src) ==
  [k \in DOMAIN dst \cup DOMAIN src |-> IF k \in DOMAIN dst THEN dst[k] ELSE src[k]]

\* a copy that replaces the map by its argument
MapsCopyReplacing(dst, src) == src

\* maps.Copy(dst, src)
MapsCopy(dst, src) ==
  [k \in DOMAIN dst \cup DOMAIN src |-> IF k \in DOMAIN src THEN src[k] ELSE dst[k]]

\* the simple form without its line end
OutputLineUnterminated(key, value, fileDelimeter) ==
  IF value.multiLine \/ Contains(value.str, "\n")
  THEN key \o <<"<<">> \o fileDelimeter \o EOF \o value.str \o EOF \o fileDelimeter \o EOF
  ELSE key \o <<"=">> \o value.str

\* the delimited form chosen by the line break alone, the flag ignored
OutputLineIgnoringFlag(key, value, fileDelimeter) ==
  IF Contains(value.str, "\n")
  THEN key \o <<"<<">> \o fileDelimeter \o EOF \o value.str \o EOF \o fileDelimeter \o EOF
  ELSE key \o <<"=">> \o value.str \o EOF

\* the text CloseOutput formats for one entry
OutputLine(key, value, fileDelimeter) ==
  IF value.multiLine \/ Contains(value.str, "\n")
  THEN key \o <<"<<">> \o fileDelimeter \o EOF \o value.str \o EOF \o fileDelimeter \o EOF
  ELSE key \o <<"=">> \o value.str \o EOF

\* fmt.Printf("::set-output name=%s::%s\n", key, value.String())
SetOutputCommand(key, value) ==
  <<"::set-output name=">> \o key \o <<"::">> \o value.str \o <<"\n">>

\* the lines written for the entries order[1..n] of an output map
LinesOf(output, order, n, fileDelimeter) ==
  [i \in 1..n |-> [key |-> order[i],
                   line |-> OutputLine(order[i], output[order[i]], fileDelimeter)]]

TextOf(lines) == Flatten([i \in 1..Len(lines) |-> lines[i].line])

\* the second loop of CloseOutput: one command per entry on standard output
Echo(output) ==
  SetToBag({SetOutputCommand(k, output[k]) : k \in DOMAIN output})

\* the file opened with O_TRUNC in place of O_APPEND
AppendToTruncating(contents, text) == text

\* os.OpenFile(path, O_APPEND|O_CREATE|O_WRONLY) followed by writes of text:
\* the file is created when absent and the text goes to its end
AppendTo(contents, text) == IF contents = Absent THEN text ELSE contents \o text

\* the write loop going on to the next entry after a failed write
WriteLoopContinuing(output, order, failAt, n, fileDelimeter) ==
  LET lines == LinesOf(output, order, failAt - 1, fileDelimeter)
      failed == OutputLine(order[failAt], output[order[failAt]], fileDelimeter)
      rest == [i \in 1..(Len(order) - failAt) |->
                 OutputLine(order[failAt + i], output[order[failAt + i]], fileDelimeter)]
  IN [lines |-> lines, failedKey |-> order[failAt], partial |-> SubSeq(failed, 1, n),
      text |-> TextOf(lines) \o SubSeq(failed, 1, n) \o Flatten(rest)]

\* the write loop of CloseOutput when the write of entry number failAt of
\* the iteration fails after n atoms of its text: the entries before it are
\* written whole, the loop is left at once
WriteLoop(output, order, failAt, n, fileDelimeter) ==
  LET lines == LinesOf(output, order, failAt - 1, fileDelimeter)
      failed == OutputLine(order[failAt], output[order[failAt]], fileDelimeter)
  IN [lines |-> lines, failedKey |-> order[failAt], partial |-> SubSeq(failed, 1, n),
      text |-> TextOf(lines) \o SubSeq(failed, 1, n)]

\* the Close of the handle made on the successful path only
DeferredCloseOnSuccessOnly(retErr, closeFails) ==
  IF retErr = "nil"
  THEN [retErr |-> IF closeFails THEN "close" ELSE retErr, closes |-> 1]
  ELSE [retErr |-> retErr, closes |-> 0]

\* the error of Close logged and dropped
DeferredCloseErrorDropped(retErr, closeFails) ==
  [retErr |-> retErr, closes |-> 1]

\* the deferred function of CloseOutput: it runs on every return made after
\* the file was opened, closes the handle and, when that fails, makes the
\* error of Close the error CloseOutput returns
DeferredClose(retErr, closeFails) ==
  [retErr |-> IF closeFails THEN "close" ELSE retErr, closes |-> 1]

\* the entry of wlog for a call of process p that opened its file
Written(p, text, complete) ==
  [proc |-> p, path |-> gh[p].githubOutput, text |-> text,
   output |-> gh[p].output, delim |-> gh[p].fileDelimeter, complete |-> complete]

\* ---------------------------------------------------------------- actions
\* the job before its first step, with GITHUB_SHA one of shas
Setup(shas) ==
  /\ env \in [GITHUB_RUN_ID : RunIds, GITHUB_RUN_NUMBER : RunNumbers,
              GITHUB_SHA : shas,
              GITHUB_OUTPUT : OutputPaths, GITHUB_ENV : EnvPaths]
  /\ pc = [p \in Procs |-> "init"]
  /\ gh = [p \in Procs |-> NoContext]
  /\ fs = [f \in Paths |-> Absent]
  /\ stdout = [p \in Procs |-> EmptyBag]
  /\ res = [p \in Procs |-> NoResult]
  /\ calls = [p \in Procs |-> <<>>]
  /\ nCalls = 0
  /\ nFaults = 0
  /\ wlog = <<>>
  /\ ident = [p \in Procs |-> NoIdent]
  /\ run = [p \in Procs |-> NoRun]

Init == Setup({HeadSHA})

\* main: environment.NewCIContext() builds the context of the process
Start(p) ==
  /\ pc[p] = "init"
  /\ \A q \in Earlier(p) : pc[q] = "done"
  /\ \E pid \in Pids :
       gh' = [gh EXCEPT ![p] = newGitHubContext(env, pid)]
  /\ pc' = [pc EXCEPT ![p] = "run"]
  /\ UNCHANGED <<env, fs, stdout, res, calls, nCalls, nFaults, wlog, ident, run>>

\* gh.SetOutput(output)
SetOutput(p) ==
  /\ pc[p] = "run"
  /\ nCalls < MaxCalls
  /\ \E output \in OutputArgs :
       /\ gh' = [gh EXCEPT ![p].output = MapsCopy(@, output)]
       /\ calls' = [calls EXCEPT ![p] = Append(@, output)]
  /\ nCalls' = nCalls + 1
  /\ UNCHANGED <<env, pc, fs, stdout, res, nFaults, wlog, ident, run>>

\* the early return made an error only when there is something to write
CloseNoDestinationEmptyOk(p) ==
  /\ gh[p].githubOutput = <<>>
  /\ res' = [res EXCEPT ![p] =
       [NoResult EXCEPT !.called = TRUE,
                        !.retErr = IF gh[p].output = EmptyMap THEN "nil" ELSE "notset",
                        !.before = gh[p].output,
                        !.history = calls[p], !.at = nCalls + 1]]
  /\ UNCHANGED <<gh, fs, stdout, calls, nFaults, wlog>>

\* gh.CloseOutput(): returns at once when no destination is configured
CloseNoDestination(p) ==
  /\ gh[p].githubOutput = <<>>
  /\ res' = [res EXCEPT ![p] =
       [NoResult EXCEPT !.called = TRUE, !.retErr = "notset", !.before = gh[p].output,
                        !.history = calls[p], !.at = nCalls + 1]]
  /\ UNCHANGED <<gh, fs, stdout, calls, nFaults, wlog>>

\* the failed open taken for the end of the call, the map reset
CloseOpenFailsResetting(p) ==
  /\ gh[p].githubOutput # <<>>
  /\ nFaults < MaxFaults
  /\ nFaults' = nFaults + 1
  /\ res' = [res EXCEPT ![p] =
       [NoResult EXCEPT !.called = TRUE, !.retErr = "open", !.before = gh[p].output,
                        !.history = calls[p], !.at = nCalls + 1,
                        !.failed = {"open"}, !.opens = 1]]
  /\ gh' = [gh EXCEPT ![p].output = EmptyMap]
  /\ UNCHANGED <<fs, stdout, calls, wlog>>

\* gh.CloseOutput(): os.OpenFile fails
CloseOpenFails(p) ==
  /\ gh[p].githubOutput # <<>>
  /\ nFaults < MaxFaults
  /\ nFaults' = nFaults + 1
  /\ res' = [res EXCEPT ![p] =
       [NoResult EXCEPT !.called = TRUE, !.retErr = "open", !.before = gh[p].output,
                        !.history = calls[p], !.at = nCalls + 1,
                        !.failed = {"open"}, !.opens = 1]]
  /\ UNCHANGED <<gh, fs, stdout, calls, wlog>>

\* gh.CloseOutput(): the file is open; the write of entry number failAt of
\* the iteration fails after part of its text went out, the function returns
\* and the deferred Close runs
CloseWriteFails(p) ==
  /\ gh[p].githubOutput # <<>>
  /\ \E order \in Orders(DOMAIN gh[p].output), closeFails \in BOOLEAN :
     \E failAt \in 1..Len(order) :
       LET failed == OutputLine(order[failAt], gh[p].output[order[failAt]],
                                gh[p].fileDelimeter)
           faults == 1 + (IF closeFails THEN 1 ELSE 0)
       IN \E n \in 0..Min(MaxTorn, Len(failed) - 1) :
            LET loop == WriteLoop(gh[p].output, order, failAt, n, gh[p].fileDelimeter)
                lines == loop.lines
                partial == loop.partial
                text == loop.text
            IN /\ nFaults + faults <= MaxFaults
               /\ nFaults' = nFaults + faults
               /\ fs' = [fs EXCEPT ![gh[p].githubOutput] = AppendTo(@, text)]
               /\ wlog' = Append(wlog, Written(p, text, FALSE))
               /\ res' = [res EXCEPT ![p] =
                    [called |-> TRUE,
                     retErr |-> DeferredClose("write", closeFails).retErr,
                     opened |-> TRUE, lines |-> lines,
                     failedKey |-> order[failAt],
                     partial |-> partial, text |-> text, before |-> gh[p].output,
                     history |-> calls[p], at |-> nCalls + 1,
                     failed |-> {"write"} \cup (IF closeFails THEN {"close"} ELSE {}),
                     opens |-> 1, syncs |-> 0,
                     closes |-> DeferredClose("write", closeFails).closes,
                     printed |-> EmptyBag]]
  /\ UNCHANGED <<gh, stdout, calls>>

\* gh.CloseOutput(): every entry is written; Sync, the echo to standard
\* output, the reset of the map, then the deferred Close
CloseDrains(p) ==
  /\ gh[p].githubOutput # <<>>
  /\ \E order \in Orders(DOMAIN gh[p].output),
        syncFails \in BOOLEAN, closeFails \in BOOLEAN :
       LET lines == LinesOf(gh[p].output, order, Len(order), gh[p].fileDelimeter)
           text == TextOf(lines)
           printed == Echo(gh[p].output)
           faults == (IF syncFails THEN 1 ELSE 0) + (IF closeFails THEN 1 ELSE 0)
       IN /\ nFaults + faults <= MaxFaults
          /\ nFaults' = nFaults + faults
          /\ fs' = [fs EXCEPT ![gh[p].githubOutput] = AppendTo(@, text)]
          /\ wlog' = Append(wlog, Written(p, text, TRUE))
          /\ stdout' = [stdout EXCEPT ![p] = @ (+) printed]
          /\ gh' = [gh EXCEPT ![p].output = EmptyMap]
          /\ calls' = [calls EXCEPT ![p] = <<>>]
          /\ res' = [res EXCEPT ![p] =
               [called |-> TRUE,
                retErr |-> DeferredClose(IF syncFails THEN "sync" ELSE "nil",
                                         closeFails).retErr,
                opened |-> TRUE, lines |-> lines, failedKey |-> <<>>,
                partial |-> <<>>, text |-> text, before |-> gh[p].output,
                history |-> calls[p], at |-> nCalls + 1,
                failed |-> (IF syncFails THEN {"sync"} ELSE {})
                             \cup (IF closeFails THEN {"close"} ELSE {}),
                opens |-> 1, syncs |-> 1,
                closes |-> DeferredClose(IF syncFails THEN "sync" ELSE "nil",
                                         closeFails).closes,
                printed |-> printed]]

\* gh.CloseOutput()
CloseOutput(p) ==
  /\ pc[p] = "run"
  /\ nCalls < MaxCalls
  /\ nCalls' = nCalls + 1
  /\ \/ CloseNoDestination(p)
     \/ CloseOpenFails(p)
     \/ CloseWriteFails(p)
     \/ CloseDrains(p)
  /\ UNCHANGED <<env, pc, ident, run>>

\* main: os.Exit(realMain()); the memory of the process is gone
Exit(p) ==
  /\ pc[p] = "run"
  /\ pc' = [pc EXCEPT ![p] = "done"]
  /\ gh' = [gh EXCEPT ![p] = NoContext]
  /\ res' = [res EXCEPT ![p] = NoResult]
  /\ calls' = [calls EXCEPT ![p] = <<>>]
  /\ ident' = [ident EXCEPT ![p] = NoIdent]
  /\ UNCHANGED <<env, fs, stdout, nCalls, nFaults, wlog, run>>

Next == \E p \in Procs : Start(p) \/ SetOutput(p) \/ CloseOutput(p) \/ Exit(p)

Spec == Init /\ [][Next]_vars

\* ------------------------------------------------- reading the identity
\* a command reads gh.ID(), gh.SHA() and gh.SHAShort(), as one of the
\* calls it makes on its context
ReadIdentity(p) ==
  /\ pc[p] = "run"
  /\ nCalls < MaxCalls
  /\ nCalls' = nCalls + 1
  /\ ident' = [ident EXCEPT ![p] =
       [read |-> TRUE, ids |-> @.ids \cup {ID(gh[p])},
        sha |-> SHA(gh[p]), short |-> SHAShort(gh[p]),
        first |-> IF @.read THEN @.first ELSE nCalls + 1, last |-> nCalls + 1]]
  /\ UNCHANGED <<env, pc, gh, fs, stdout, res, calls, nFaults, wlog, run>>

\* the steps of a job that only read their identity, for every GITHUB_SHA
InitSha == Setup(CommitSHAs)

NextSha == \E p \in Procs : Start(p) \/ ReadIdentity(p) \/ Exit(p)

SpecSha == InitSha /\ [][NextSha]_vars

\* a step that reads its identity between its calls on the context
NextId ==
  \E p \in Readers :
    Start(p) \/ ReadIdentity(p) \/ SetOutput(p) \/ CloseOutput(p) \/ Exit(p)

SpecId == Init /\ [][NextId]_vars

\* ------------------------------------------------- the upload command
\* one call Run makes, as the trace of the command records it
Event(op, name, value) == [op |-> op, name |-> name, value |-> value]

\* what one c.closeOutput() asks of the context
MetaCloseOutput == <<Event("env.CloseOutput", "", "")>>

\* c.closeOutput()
closeOutput == <<Event("closeOutput", "", "")>> \o MetaCloseOutput

\* c.addConfigurationDetails(config)
addConfigurationDetails(config) ==
  (IF config # "nil"
   THEN <<Event("addOutput", "configuration_version_id", config),
          Event("addOutput", "configuration_version_status", config)>>
   ELSE <<>>)
  \o <<Event("addOutputWithOpts", "payload", config)>>

\* Run: c.setupCmd(args, c.flags()); its error ends Run with 1
RunSetup(p) ==
  /\ pc[p] = "run"
  /\ run[p].at = "start"
  /\ \E speculative \in BOOLEAN, provisional \in BOOLEAN, setupErr \in BOOLEAN :
       run' = [run EXCEPT ![p] =
         [@ EXCEPT !.speculative = speculative, !.provisional = provisional,
                   !.setupErr = setupErr,
                   !.at = IF setupErr THEN "returned" ELSE "abs",
                   !.ret = IF setupErr THEN 1 ELSE @]]
  /\ UNCHANGED <<ctxVars, ident>>

\* Run: filepath.Abs(c.Directory)
RunAbs(p) ==
  /\ run[p].at = "abs"
  /\ \E dirError \in BOOLEAN :
       run' = [run EXCEPT ![p] =
         [@ EXCEPT !.dirError = dirError,
                   !.at = IF dirError THEN "dirError" ELSE "upload"]]
  /\ UNCHANGED <<ctxVars, ident>>

\* the branch of the directory error returning without closing the output
RunDirErrorNoClose(p) ==
  /\ run[p].at = "dirError"
  /\ run' = [run EXCEPT ![p] =
       [@ EXCEPT !.trace = @ \o <<Event("addOutput", "status", "Error")>>
                             \o <<Event("ErrorResult", "", "")>>,
                 !.ret = 1, !.at = "returned"]]
  /\ UNCHANGED <<ctxVars, ident>>

\* Run: the branch of dirError != nil
RunDirError(p) ==
  /\ run[p].at = "dirError"
  /\ run' = [run EXCEPT ![p] =
       [@ EXCEPT !.trace = @ \o <<Event("addOutput", "status", "Error")>>
                             \o closeOutput
                             \o <<Event("ErrorResult", "", "")>>,
                 !.ret = 1, !.at = "returned"]]
  /\ UNCHANGED <<ctxVars, ident>>

\* Run: c.cloud.UploadConfig(...) returns a configuration version or nil,
\* and an error or nil
RunUploadConfig(p) ==
  /\ run[p].at = "upload"
  /\ \E config \in {"nil", "cv-1"}, cvError \in BOOLEAN :
       run' = [run EXCEPT ![p] =
         [@ EXCEPT !.config = config, !.cvError = cvError,
                   !.at = IF cvError THEN "cvError" ELSE "success"]]
  /\ UNCHANGED <<ctxVars, ident>>

\* Run: the branch of cvError != nil
RunCvError(p) ==
  /\ run[p].at = "cvError"
  /\ \E status \in Statuses :
       run' = [run EXCEPT ![p] =
         [@ EXCEPT !.trace = @ \o <<Event("addOutput", "status", status)>>
                               \o addConfigurationDetails(run[p].config)
                               \o <<Event("ErrorResult", "", "")>>
                               \o closeOutput
                               \o <<Event("OutputResult", "", "")>>,
                   !.ret = 1, !.at = "returned"]]
  /\ UNCHANGED <<ctxVars, ident>>

\* Run: the upload succeeded
RunSuccess(p) ==
  /\ run[p].at = "success"
  /\ run' = [run EXCEPT ![p] =
       [@ EXCEPT !.trace = @ \o <<Event("addOutput", "status", "Success")>>
                             \o addConfigurationDetails(run[p].config)
                             \o closeOutput
                             \o <<Event("OutputResult", "", "")>>,
                 !.ret = 0, !.at = "returned"]]
  /\ UNCHANGED <<ctxVars, ident>>

\* main: os.Exit with what Run returned
ExitRun(p) ==
  /\ run[p].at = "returned"
  /\ Exit(p)

NextRun ==
  \E p \in Procs :
    \/ Start(p)
    \/ RunSetup(p)
    \/ RunAbs(p)
    \/ RunDirError(p)
    \/ RunUploadConfig(p)
    \/ RunCvError(p)
    \/ RunSuccess(p)
    \/ ExitRun(p)

SpecRun == Init /\ [][NextRun]_vars

TypeOK ==
  /\ pc \in [Procs -> {"init", "run", "done"}]
  /\ \A p \in Procs : res[p].retErr \in {"nil", "notset", "open", "write", "sync", "close"}

\* ------------------------------------------------------------- properties
\* the texts the CloseOutput calls wrote to file f, joined in call order
RECURSIVE WrittenTo(_, _)
WrittenTo(f, log) ==
  IF log = <<>> THEN <<>>
  ELSE (IF Head(log).path = f THEN Head(log).text ELSE <<>>) \o WrittenTo(f, Tail(log))

\* C10: CloseOutput only appends.  A file exists exactly when some call
\* opened it, what a file held before a step is a prefix of what it holds
\* after the step, and every file is the concatenation, in call order, of
\* the texts the calls wrote to it.
C10_AppendOnly ==
  /\ [](\A f \in Paths :
          IF \E i \in 1..Len(wlog) : wlog[i].path = f
          THEN fs[f] = WrittenTo(f, wlog)
          ELSE fs[f] = Absent)
  /\ [][\A f \in Paths :
          fs[f] # Absent => fs'[f] # Absent /\ IsPrefix(fs[f], fs'[f])]_vars

\* two calls of different processes each added text to the same file
C10_Witness ==
  \E i, j \in 1..Len(wlog) :
    /\ i < j
    /\ wlog[i].path = wlog[j].path
    /\ wlog[i].proc # wlog[j].proc
    /\ wlog[i].text # <<>>
    /\ wlog[j].text # <<>>
    /\ fs[wlog[i].path] = wlog[i].text \o wlog[j].text

\* a payload without a line break
SingleLine(str) == \A i \in 1..Len(str) : str[i] # "\n"

\* the processes whose last CloseOutput call opened the destination
Opened == {p \in Procs : res[p].called /\ res[p].opened}

\* C1: an entry whose payload has no line break and whose value is not
\* flagged multiline is written as exactly key, "=", payload, line end; and
\* the call appends nothing but the lines of its entries (and the torn piece
\* of an entry whose write failed).
C1_SimpleForm ==
  \A p \in Opened :
    /\ \A i \in 1..Len(res[p].lines) :
         LET key == res[p].lines[i].key
             value == res[p].before[key]
         IN SingleLine(value.str) /\ ~value.multiLine
            => res[p].lines[i].line = key \o <<"=">> \o value.str \o <<"\n">>
    /\ res[p].text = TextOf(res[p].lines) \o res[p].partial

\* a call that returned no error wrote an unflagged single-line entry
C1_Witness ==
  \E p \in Opened :
    /\ res[p].retErr = "nil"
    /\ \E i \in 1..Len(res[p].lines) :
         LET value == res[p].before[res[p].lines[i].key]
         IN SingleLine(value.str) /\ ~value.multiLine /\ Contains(value.str, "=")

\* C2: an entry whose payload has a line break, or whose value is flagged
\* multiline, is written as exactly key, "<<", DELIM, line end, payload,
\* line end, DELIM, line end, DELIM being the delimiter token of the context.
C2_DelimitedForm ==
  \A p \in Opened :
    \A i \in 1..Len(res[p].lines) :
      LET key == res[p].lines[i].key
          value == res[p].before[key]
          delim == gh[p].fileDelimeter
      IN ~SingleLine(value.str) \/ value.multiLine
         => res[p].lines[i].line =
              key \o <<"<<">> \o delim \o <<"\n">> \o value.str \o <<"\n">>
                  \o delim \o <<"\n">>

\* one call wrote a flagged single-line entry and an entry with a line break
C2_Witness ==
  \E p \in Opened :
    /\ res[p].retErr = "nil"
    /\ \E i, j \in 1..Len(res[p].lines) :
         LET vi == res[p].before[res[p].lines[i].key]
             vj == res[p].before[res[p].lines[j].key]
         IN /\ vi.multiLine /\ SingleLine(vi.str)
            /\ ~vj.multiLine /\ ~SingleLine(vj.str)

\* the keys the SetOutput calls of a history mention
KeysOf(history) == UNION {DOMAIN history[i] : i \in 1..Len(history)}

\* the value the last call of a history that mentions key gave it
LastValue(history, key) ==
  LET last == CHOOSE i \in 1..Len(history) :
                /\ key \in DOMAIN history[i]
                /\ \A j \in (i + 1)..Len(history) : key \notin DOMAIN history[j]
  IN history[last][key]

\* C3: a CloseOutput call that wrote every entry wrote one entry per key the
\* SetOutput calls before it mentioned, each with the value of the last call
\* that mentioned the key.
C3_LastWriteWins ==
  \A p \in Opened :
    res[p].syncs = 1 =>
      /\ Len(res[p].lines) = Cardinality(KeysOf(res[p].history))
      /\ {res[p].lines[i].key : i \in 1..Len(res[p].lines)} = KeysOf(res[p].history)
      /\ \A i \in 1..Len(res[p].lines) :
           res[p].lines[i].line =
             OutputLine(res[p].lines[i].key,
                        LastValue(res[p].history, res[p].lines[i].key),
                        gh[p].fileDelimeter)

\* a key was set twice, to different values, and the call then succeeded
C3_Witness ==
  \E p \in Opened :
    /\ res[p].retErr = "nil"
    /\ Len(res[p].history) = 2
    /\ \E k \in DOMAIN res[p].history[1] \cap DOMAIN res[p].history[2] :
         res[p].history[1][k] # res[p].history[2][k]

\* the processes whose context has no destination path
NoDestination == {p \in Procs : pc[p] = "run" /\ gh[p].githubOutput = <<>>}

C5_ClearedAfterDrain ==
  /\ [](\A p \in Opened : gh[p].output = EmptyMap)
  /\ [][\A p \in Opened :
          res[p].at = nCalls /\ CloseOutput(p) => fs' = fs]_vars

\* ---------------------------------------------------------- the consumer
\* The reader of the destination file: a line "key=value" gives key the
\* value; a line "key<<DELIM" gives key the lines that follow, joined by
\* line breaks, up to the first line that is exactly DELIM.

\* the lines of a text, each without its line end; the text after the last
\* line end, when there is some, counts as a line too
RECURSIVE LinesFrom(_, _)
LinesFrom(text, line) ==
  IF text = <<>> THEN (IF line = <<>> THEN <<>> ELSE <<line>>)
  ELSE IF Head(text) = "\n" THEN <<line>> \o LinesFrom(Tail(text), <<>>)
  ELSE LinesFrom(Tail(text), Append(line, Head(text)))

\* the first position of atom a in s, or 0
IndexOf(s, a) ==
  IF Contains(s, a)
  THEN CHOOSE i \in 1..Len(s) : s[i] = a /\ \A j \in 1..(i - 1) : s[j] # a
  ELSE 0

RECURSIVE JoinLines(_)
JoinLines(ls) ==
  IF ls = <<>> THEN <<>>
  ELSE IF Len(ls) = 1 THEN ls[1]
  ELSE ls[1] \o <<"\n">> \o JoinLines(Tail(ls))

\* read the lines from number i on into the mapping acc
RECURSIVE ParseFrom(_, _, _)
ParseFrom(ls, i, acc) ==
  IF i > Len(ls) THEN [ok |-> TRUE, values |-> acc]
  ELSE
    LET line == ls[i]
        eq == IndexOf(line, "=")
        here == IndexOf(line, "<<")
    IN IF here > 0 /\ (eq = 0 \/ here < eq)
       THEN LET key == SubSeq(line, 1, here - 1)
                delim == SubSeq(line, here + 1, Len(line))
                ends == {j \in (i + 1)..Len(ls) : ls[j] = delim}
            IN IF ends = {} THEN [ok |-> FALSE, values |-> acc]
               ELSE LET end == CHOOSE j \in ends : \A k \in ends : j <= k
                    IN ParseFrom(ls, end + 1,
                         MapsCopy(acc, [k \in {key} |->
                                          JoinLines(SubSeq(ls, i + 1, end - 1))]))
       ELSE IF eq > 0
       THEN ParseFrom(ls, i + 1,
              MapsCopy(acc, [k \in {SubSeq(line, 1, eq - 1)} |->
                               SubSeq(line, eq + 1, Len(line))]))
       ELSE [ok |-> FALSE, values |-> acc]

Parse(text) == ParseFrom(LinesFrom(text, <<>>), 1, [k \in {} |-> <<>>])

\* C6: the consumer reads back, from the text a CloseOutput call appended,
\* exactly the mapping from each key of the Output Set to its payload.
C6_RoundTrip ==
  \A p \in Opened :
    res[p].syncs = 1 =>
      /\ Parse(res[p].text).ok
      /\ Parse(res[p].text).values = [k \in DOMAIN res[p].before |-> res[p].before[k].str]

\* C7: two invocations that write to the same destination file never have
\* equal delimiter tokens.
C7_DistinctDelimiters ==
  \A i, j \in 1..Len(wlog) :
    wlog[i].proc # wlog[j].proc /\ wlog[i].path = wlog[j].path
      => wlog[i].delim # wlog[j].delim

\* C8: the destination of a constructed context is GITHUB_OUTPUT when that
\* is non-empty, else GITHUB_ENV when that is non-empty, else none; and the
\* construction goes through in each of the three cases.
C8_DestinationResolution ==
  \A p \in Procs :
    /\ pc[p] = "run" =>
         /\ gh[p].githubOutput =
              IF env["GITHUB_OUTPUT"] # <<>> THEN env["GITHUB_OUTPUT"]
              ELSE IF env["GITHUB_ENV"] # <<>> THEN env["GITHUB_ENV"]
              ELSE <<>>
         /\ gh[p].fileDelimeter # <<>>
    /\ (pc[p] = "init" /\ \A q \in Earlier(p) : pc[q] = "done") => ENABLED Start(p)

\* a context was constructed with GITHUB_OUTPUT empty and GITHUB_ENV set
C8_Witness ==
  \E p \in Procs :
    /\ pc[p] = "run"
    /\ env["GITHUB_OUTPUT"] = <<>>
    /\ env["GITHUB_ENV"] # <<>>
    /\ gh[p].githubOutput = env["GITHUB_ENV"]

\* C9: the text a CloseOutput call appends for an Output Set is the same
\* whatever order the run time visits the entries in.
C9_Deterministic ==
  \A p \in Opened :
    res[p].syncs = 1 =>
      \A order \in Orders(DOMAIN res[p].before) :
        res[p].text =
          TextOf(LinesOf(res[p].before, order, Len(order), gh[p].fileDelimeter))

\* the keys of the entries a call wrote whole
WrittenKeys(p) == {res[p].lines[i].key : i \in 1..Len(res[p].lines)}

\* C14: a CloseOutput call that opened the destination closes the handle
\* exactly once before it returns, on every path: every entry written, a
\* write that failed, a Sync that failed; a call that opened nothing closes
\* nothing.
C14_ClosedOnce ==
  \A p \in Procs :
    res[p].called => res[p].closes = (IF res[p].opened THEN 1 ELSE 0)

\* a call returned after a failed write with the handle closed once
C14_Witness ==
  \E p \in Opened :
    /\ "write" \in res[p].failed
    /\ Len(res[p].lines) = 1
    /\ res[p].closes = 1

\* C15: when the write of an entry fails the call returns an error, writes
\* no entry after the failing one and does not attempt Sync; Sync is
\* attempted only when every pending entry was written without error.
C15_WriteFailureStops ==
  \A p \in Opened :
    /\ "write" \in res[p].failed =>
         /\ res[p].retErr # "nil"
         /\ res[p].syncs = 0
         /\ res[p].failedKey \in DOMAIN res[p].before
         /\ res[p].failedKey \notin WrittenKeys(p)
         /\ Len(res[p].lines) < Cardinality(DOMAIN res[p].before)
         /\ res[p].text = TextOf(res[p].lines) \o res[p].partial
    /\ res[p].syncs = 1 =>
         /\ "write" \notin res[p].failed
         /\ WrittenKeys(p) = DOMAIN res[p].before
         /\ Len(res[p].lines) = Cardinality(DOMAIN res[p].before)

\* the write of the first of two entries failed
C15_Witness ==
  \E p \in Opened :
    /\ "write" \in res[p].failed
    /\ res[p].lines = <<>>
    /\ Cardinality(DOMAIN res[p].before) = 2
    /\ res[p].syncs = 0

\* C16: a failed Close makes CloseOutput return an error also when every
\* write and the Sync succeeded; a call in which something failed returns
\* one error, that of a step that failed, and attempts no step twice.
C16_OneErrorNoRetry ==
  \A p \in Procs :
    res[p].called =>
      /\ "close" \in res[p].failed => res[p].retErr = "close"
      /\ res[p].retErr = "nil" <=> (res[p].failed = {} /\ res[p].opened)
      /\ res[p].retErr # "nil" =>
           res[p].retErr \in res[p].failed \cup (IF res[p].opens = 0 THEN {"notset"} ELSE {})
      /\ res[p].opens <= 1 /\ res[p].syncs <= 1 /\ res[p].closes <= 1
      /\ Len(res[p].lines) = Cardinality(WrittenKeys(p))
      /\ res[p].failedKey \notin WrittenKeys(p)

\* every write and the Sync succeeded, Close failed, the call returned it
C16_Witness ==
  \E p \in Opened :
    /\ res[p].failed = {"close"}
    /\ res[p].syncs = 1
    /\ res[p].lines # <<>>
    /\ res[p].retErr = "close"

\* file f is after the step what it was before it
FileSame(f) == IF fs[f] = Absent THEN fs'[f] = Absent ELSE fs'[f] = fs[f]

\* the step is a SetOutput call of process p: only SetOutput lengthens calls
SetNow(p) == Len(calls'[p]) = Len(calls[p]) + 1

\* the step is a CloseOutput call of process p: it stamps res[p] with the
\* number of the call
ClosedNow(p) == nCalls' = nCalls + 1 /\ res'[p].called /\ res'[p].at = nCalls'

\* C17: SetOutput changes nothing but the Output Set: no file, nothing on
\* standard output, not the run identity, the destination path or the
\* delimiter token, and not the value of a key its argument does not
\* mention; it can always be called; a file changes only in CloseOutput.
C17_SetOutputInMemory ==
  /\ [][\A p \in Procs :
          SetNow(p) =>
            LET arg == calls'[p][Len(calls'[p])]
            IN /\ \A f \in Paths : FileSame(f)
               /\ stdout' = stdout
               /\ gh'[p].runId = gh[p].runId
               /\ gh'[p].runNumber = gh[p].runNumber
               /\ gh'[p].githubOutput = gh[p].githubOutput
               /\ gh'[p].fileDelimeter = gh[p].fileDelimeter
               /\ \A k \in DOMAIN gh[p].output \ DOMAIN arg :
                    k \in DOMAIN gh'[p].output /\ gh'[p].output[k] = gh[p].output[k]
               /\ \A k \in DOMAIN arg : gh'[p].output[k] = arg[k]]_vars
  /\ [][(\E f \in Paths : ~FileSame(f)) => \E p \in Procs : ClosedNow(p)]_vars

\* a key set by one SetOutput call kept its value through a second call
\* that did not mention it
C17_Witness ==
  \E p \in Procs :
    /\ Len(calls[p]) = 2
    /\ \E k \in DOMAIN calls[p][1] \ DOMAIN calls[p][2] :
         k \in DOMAIN gh[p].output /\ gh[p].output[k] = calls[p][1][k]

\* C18: a CloseOutput call that fails before it has opened the destination
\* (no destination path, or the open fails) leaves the Output Set as it was
\* and writes nothing to a file or to standard output.
C18_EarlyFailureKeepsSet ==
  [][\A p \in Procs :
       ClosedNow(p) /\ ~res'[p].opened =>
         /\ res'[p].retErr \in {"notset", "open"}
         /\ gh'[p].output = gh[p].output
         /\ calls' = calls
         /\ \A f \in Paths : FileSame(f)
         /\ stdout' = stdout]_vars

\* the open failed with entries pending, and they are still pending
C18_Witness ==
  \E p \in Procs :
    /\ res[p].called
    /\ res[p].retErr = "open"
    /\ res[p].at = nCalls
    /\ gh[p].output # EmptyMap
    /\ gh[p].output = res[p].before

\* the places of event op in a trace
Places(trace, op) == {i \in 1..Len(trace) : trace[i].op = op}

\* the places in a trace where the status output is set
StatusSet(trace) ==
  {i \in 1..Len(trace) : trace[i].op = "addOutput" /\ trace[i].name = "status"}

\* C11: in the upload command's Run, on every path after the setup
\* succeeded (directory error, upload error, upload success) the status
\* output is set and after that the context is asked to close its output,
\* exactly once before Run returns; Run returns 0 when the upload succeeded
\* and 1 on every other path.
C11_StatusThenCloseOnce ==
  \A p \in Procs :
    LET r == run[p]
        closes == Places(r.trace, "env.CloseOutput")
    IN /\ Cardinality(closes) <= 1
       /\ \A j \in closes : \E i \in StatusSet(r.trace) : i < j
       /\ r.at = "returned" =>
            /\ r.ret \in {0, 1}
            /\ r.ret = 0 <=> (~r.setupErr /\ ~r.dirError /\ ~r.cvError)
            /\ ~r.setupErr => Cardinality(closes) = 1
            /\ ~r.setupErr => Cardinality(Places(r.trace, "closeOutput")) = 1

\* Run returned 1 after a directory error, the output closed once
C11_Witness ==
  \E p \in Procs :
    /\ run[p].at = "returned"
    /\ run[p].dirError
    /\ run[p].ret = 1
    /\ Cardinality(Places(run[p].trace, "env.CloseOutput")) = 1

\* C12: SHAShort returns the first 7 characters of the commit SHA when
\* the SHA has more than 7, and the whole SHA when it has 7 or fewer, the
\* empty one included; the result is a prefix of SHA() of length
\* min(7, len(SHA)).
C12_ShortSHA ==
  \A p \in Procs :
    ident[p].read =>
      LET sha == env.GITHUB_SHA
          short == ident[p].short
      IN /\ ident[p].sha = sha
         /\ Len(sha) > 7 => short = SubSeq(sha, 1, 7)
         /\ Len(sha) <= 7 => short = sha
         /\ IsPrefix(short, ident[p].sha)
         /\ Len(short) = Min(7, Len(sha))

\* the short form of a SHA of 8 characters was read
C12_Witness ==
  \E p \in Procs :
    ident[p].read /\ Len(ident[p].sha) = 8 /\ Len(ident[p].short) = 7

\* C13: ID() returns gha-<run id>-<run number>, of the run id and run
\* number the environment had at construction, and the same value on every
\* call, whatever SetOutput and CloseOutput calls came between.
C13_StableID ==
  \A p \in Procs :
    ident[p].read =>
      /\ ident[p].ids =
           {<<"gha", "-">> \o env.GITHUB_RUN_ID \o <<"-">> \o env.GITHUB_RUN_NUMBER}
      /\ ident[p].ids = {<<"gha", "-", "42", "-", "7">>}

\* ID() was read as the first call on the context and again after a
\* SetOutput and a CloseOutput call
C13_Witness ==
  \E p \in Procs :
    /\ ident[p].read
    /\ ident[p].first = 1
    /\ res[p].called /\ res[p].history # <<>>
    /\ res[p].at < ident[p].last
====
